---- MODULE Spec2Model ----
(***************************************************************************)
(* Plot consolidation pipeline of tools/plotmap/plotmap.py:                *)
(* renumber_plots -> parse_plots -> merge_adjacent_plots ->                *)
(* update_json_with_merged_plots, as driven by main.                       *)
(*                                                                         *)
(* Strings that the code takes apart (zone names, display names) are       *)
(* sequences of one-character strings.  A dict entry that may be absent    *)
(* is a sequence of length 0 (absent) or 1 (present), so dict.get(k, d)    *)
(* is Get(o, d) and d[k] on an absent key raises KeyError.                 *)
(***************************************************************************)
EXTENDS Integers, Sequences, FiniteSets, TLC

\* ------------------------------------------------------------------ bounds
\* The input document holds 1..MaxZones zones over all dimensions.
MaxZones == 3
\* In the documents that vary permissions, dimension and the entries of the
\* area, at most MaxVaried zones differ from the plain zone.
MaxVaried == 2

\* ---------------------------------------------------------------- helpers
Min(a, b) == IF a <= b THEN a ELSE b
Max(a, b) == IF a >= b THEN a ELSE b
Abs(a) == IF a < 0 THEN -a ELSE a

\* dict.get(key, default) on an optional entry
Get(o, d) == IF o = <<>> THEN d ELSE o[1]

\* str.startswith on character sequences
StartsWith(s, p) == Len(s) >= Len(p) /\ SubSeq(s, 1, Len(p)) = p

\* membership of a value in a Python list
InList(x, s) == \E k \in 1..Len(s) : s[k] = x

Prefix == <<"_", "P", "L", "O", "T", "_">>
MergedPlaceholder == <<"_", "M", "E", "R", "G", "E", "D", "_", "P", "L", "O", "T", "_">>
Separator == <<" ", "+", " ">>

Digits == <<"0", "1", "2", "3", "4", "5", "6", "7", "8", "9">>
IsDigit(c) == \E k \in 1..10 : Digits[k] = c
DigitVal(c) == (CHOOSE k \in 1..10 : Digits[k] = c) - 1

\* int(s) for a non-empty string of decimal digits
RECURSIVE ParseInt(_)
ParseInt(s) ==
  IF s = <<>> THEN 0
  ELSE 10 * ParseInt(SubSeq(s, 1, Len(s) - 1)) + DigitVal(s[Len(s)])

\* f"{n}" for n >= 0
RECURSIVE FormatInt(_)
FormatInt(n) ==
  IF n < 10 THEN <<Digits[n + 1]>>
  ELSE FormatInt(n \div 10) \o <<Digits[(n % 10) + 1]>>

\* the longest run of digits at the start of s (the greedy \d+ of the regex)
RECURSIVE DigitRun(_)
DigitRun(s) ==
  IF s # <<>> /\ IsDigit(s[1]) THEN <<s[1]>> \o DigitRun(Tail(s)) ELSE <<>>

\* ------------------------------------------------------------- Plot class
\* get_area_m2 without abs(): the signed differences of the corners
get_area_m2_signed(p) ==
  LET width == (p.x_max - p.x_min) + 1
      depth == (p.z_max - p.z_min) + 1
  IN width * depth

get_area_m2(p) ==
  LET width == Abs(p.x_max - p.x_min) + 1
      depth == Abs(p.z_max - p.z_min) + 1
  IN width * depth

PricePerBlock == 256

get_price(p) == get_area_m2(p) * PricePerBlock

get_bounds(p) == <<p.x_min, p.z_min, p.x_max, p.z_max>>

\* can_merge with the adjacency tests written as <=, so that rectangles
\* separated by a gap pass
can_merge_across_gap(self, other) ==
  IF self.dimension # other.dimension \/ self.owner_uuid # other.owner_uuid
  THEN FALSE
  ELSE LET b1 == get_bounds(self)
           b2 == get_bounds(other)
       IN IF (b1[2] = b2[2] /\ b1[4] = b2[4])
             /\ (b1[3] + 1 <= b2[1] \/ b2[3] + 1 <= b1[1])
          THEN TRUE
          ELSE (b1[1] = b2[1] /\ b1[3] = b2[3])
               /\ (b1[4] + 1 <= b2[2] \/ b2[4] + 1 <= b1[2])

can_merge(self, other) ==
  IF self.dimension # other.dimension \/ self.owner_uuid # other.owner_uuid
  THEN FALSE
  ELSE LET b1 == get_bounds(self)
           b2 == get_bounds(other)
           x1_min == b1[1]
           z1_min == b1[2]
           x1_max == b1[3]
           z1_max == b1[4]
           x2_min == b2[1]
           z2_min == b2[2]
           x2_max == b2[3]
           z2_max == b2[4]
       IN IF (z1_min = z2_min /\ z1_max = z2_max)
             /\ (x1_max + 1 = x2_min \/ x2_max + 1 = x1_min)
          THEN TRUE
          ELSE IF (x1_min = x2_min /\ x1_max = x2_max)
                  /\ (z1_max + 1 = z2_min \/ z2_max + 1 = z1_min)
               THEN TRUE
               ELSE FALSE

\* the if / elif / elif / else chain of Plot.merge that picks the display name
merged_display_name(plot1, plot2) ==
  IF StartsWith(plot1.display_name, Prefix) /\ StartsWith(plot2.display_name, Prefix)
  THEN MergedPlaceholder
  ELSE IF ~StartsWith(plot1.display_name, Prefix)
       THEN plot1.display_name
       ELSE IF ~StartsWith(plot2.display_name, Prefix)
            THEN plot2.display_name
            ELSE plot1.display_name \o Separator \o plot2.display_name

\* merged_area['area']['low']['x'] = ... raises KeyError when the copied zone
\* has no 'area', 'low' or 'high' entry
SetCoordsRaises(zone) ==
  IF zone.area = <<>> THEN TRUE
  ELSE IF zone.area[1].low = <<>> THEN TRUE
  ELSE zone.area[1].high = <<>>

\* the four coordinate assignments on a zone dict that has the entries
SetCoords(zone, x_min, z_min, x_max, z_max) ==
  [zone EXCEPT !.area = << [low  |-> << [zone.area[1].low[1]  EXCEPT !.x = <<x_min>>, !.z = <<z_min>>] >>,
                            high |-> << [zone.area[1].high[1] EXCEPT !.x = <<x_max>>, !.z = <<z_max>>] >>] >>]

MergeRaises(plot1, plot2) == SetCoordsRaises(plot1.original_area_data)

\* Plot.merge taking the name of the second operand
merge_keep_second(plot1, plot2) ==
  [name |-> plot2.name,
   display_name |-> merged_display_name(plot1, plot2),
   owner_uuid |-> plot1.owner_uuid,
   owner_name |-> plot1.owner_name,
   x_min |-> Min(plot1.x_min, plot2.x_min),
   z_min |-> Min(plot1.z_min, plot2.z_min),
   x_max |-> Max(plot1.x_max, plot2.x_max),
   z_max |-> Max(plot1.z_max, plot2.z_max),
   dimension |-> plot1.dimension,
   original_area_data |-> plot1.original_area_data]

\* Plot.merge leaving the rectangle of the first operand as it is
merge_first_rect(plot1, plot2) ==
  [name |-> plot1.name,
   display_name |-> merged_display_name(plot1, plot2),
   owner_uuid |-> plot1.owner_uuid,
   owner_name |-> plot1.owner_name,
   x_min |-> plot1.x_min,
   z_min |-> plot1.z_min,
   x_max |-> plot1.x_max,
   z_max |-> plot1.z_max,
   dimension |-> plot1.dimension,
   original_area_data |-> plot1.original_area_data]

\* Plot.merge, for operands on which it does not raise
merge(plot1, plot2) ==
  LET x_min == Min(plot1.x_min, plot2.x_min)
      z_min == Min(plot1.z_min, plot2.z_min)
      x_max == Max(plot1.x_max, plot2.x_max)
      z_max == Max(plot1.z_max, plot2.z_max)
  IN [name |-> plot1.name,
      display_name |-> merged_display_name(plot1, plot2),
      owner_uuid |-> plot1.owner_uuid,
      owner_name |-> plot1.owner_name,
      x_min |-> x_min,
      z_min |-> z_min,
      x_max |-> x_max,
      z_max |-> z_max,
      dimension |-> plot1.dimension,
      original_area_data |->
        SetCoords(plot1.original_area_data, x_min, z_min, x_max, z_max)]

\* ------------------------------------------------------------- documents
\* json_data["worldZones"]: dimension key -> list of zones, in the order of
\* the document (DimOrder).
DimOrder == <<"0", "1">>
DimKeys == {DimOrder[k] : k \in 1..Len(DimOrder)}

\* int(dim_id_str) and str(plot.dimension)
DimInt(k) == IF k = "0" THEN 0 ELSE 1
DimStr(n) == IF n = 0 THEN "0" ELSE "1"

\* every zone of the document as <<key, index>>, in traversal order
RECURSIVE ZoneRefsFrom(_, _)
ZoneRefsFrom(doc, d) ==
  IF d > Len(DimOrder) THEN <<>>
  ELSE [k \in 1..Len(doc[DimOrder[d]]) |-> <<DimOrder[d], k>>] \o ZoneRefsFrom(doc, d + 1)

ZoneRefs(doc) == ZoneRefsFrom(doc, 1)

ZoneAt(doc, ref) == doc[ref[1]][ref[2]]

\* ------------------------------------------------------ renumber_plots
\* re.match(r'_PLOT_(\d+)', name): <<n>> on a match, <<>> for None
extract_plot_number(name) ==
  IF StartsWith(name, Prefix)
  THEN LET run == DigitRun(SubSeq(name, Len(Prefix) + 1, Len(name)))
       IN IF run # <<>> THEN <<ParseInt(run)>> ELSE <<>>
  ELSE <<>>

existing_numbers(doc) ==
  {extract_plot_number(ZoneAt(doc, ZoneRefs(doc)[r]).name)[1] :
     r \in {q \in 1..Len(ZoneRefs(doc)) :
              extract_plot_number(ZoneAt(doc, ZoneRefs(doc)[q]).name) # <<>>}}

\* number_mapping[old_num]: the 1-based rank among the sorted distinct numbers
number_mapping(nums, old_num) == Cardinality({m \in nums : m <= old_num})

needs_renumbering(doc) ==
  LET nums == existing_numbers(doc)
  IN nums # {} /\ nums # 1..Cardinality(nums)

\* the condition under which the renaming loop renames a zone:
\* old_num is not None and old_num in number_mapping, and old_num != new_num
is_renamed(nums, old_name) ==
  LET old_num == extract_plot_number(old_name)
  IN IF old_num = <<>> THEN FALSE
     ELSE old_num[1] \in nums /\ old_num[1] # number_mapping(nums, old_num[1])

\* the name written with the number after the one mapped
new_name_off_by_one(new_num) == Prefix \o FormatInt(new_num + 1)

\* new_name = f"_PLOT_{new_num}"
new_name(new_num) == Prefix \o FormatInt(new_num)

\* the name a zone ends with in the renaming loop
renamed_name(nums, old_name) ==
  IF is_renamed(nums, old_name)
  THEN new_name(number_mapping(nums, extract_plot_number(old_name)[1]))
  ELSE old_name

\* renumber_plots: the (deep-copied) document and the rename count
renumber_plots(json_data) ==
  LET nums == existing_numbers(json_data)
  IN IF ~needs_renumbering(json_data)
     THEN [data |-> json_data, renamed_count |-> 0]
     ELSE [data |-> [d \in DOMAIN json_data |->
                       [k \in 1..Len(json_data[d]) |->
                          [json_data[d][k] EXCEPT !.name = renamed_name(nums, @)]]],
           renamed_count |->
             Cardinality({r \in 1..Len(ZoneRefs(json_data)) :
                is_renamed(nums, ZoneAt(json_data, ZoneRefs(json_data)[r]).name)})]

\* -------------------------------------------------------- parse_plots
\* the entry of the last item of a list that holds it
LastPresent(groups, field) ==
  IF \E k \in 1..Len(groups) : groups[k][field] # <<>>
  THEN groups[CHOOSE k \in 1..Len(groups) :
                /\ groups[k][field] # <<>>
                /\ \A m \in (k + 1)..Len(groups) : groups[m][field] = <<>>][field]
  ELSE <<>>

\* the entry of the first item of a list that holds it (for ... if key in
\* perms: ... break), <<>> when none does
FirstPresent(groups, field) ==
  IF \E k \in 1..Len(groups) : groups[k][field] # <<>>
  THEN groups[CHOOSE k \in 1..Len(groups) :
                /\ groups[k][field] # <<>>
                /\ \A m \in 1..(k - 1) : groups[m][field] = <<>>][field]
  ELSE <<>>

\* a player key "(uuid|name)" is held as its parts: key.strip("()").split("|")
OwnerNameMatches(player, owner_uuid) ==
  /\ player.plot_owner
  /\ Len(player.parts) >= 2
  /\ Len(player.parts) = 2
  /\ <<player.parts[1]>> = owner_uuid

resolve_owner_name(player_perms, owner_uuid) ==
  IF \E k \in 1..Len(player_perms) : OwnerNameMatches(player_perms[k], owner_uuid)
  THEN player_perms[CHOOSE k \in 1..Len(player_perms) :
                      /\ OwnerNameMatches(player_perms[k], owner_uuid)
                      /\ \A m \in 1..(k - 1) :
                            ~OwnerNameMatches(player_perms[m], owner_uuid)].parts[2]
  ELSE "Unknown"

\* the owner the zone resolves to: <<uuid>>, or <<>> for None
zone_owner(area) == FirstPresent(area.groupPermissions, "owner")

\* `if owner_uuid:` is false for None and for the empty string
is_owned(area) == zone_owner(area) # <<>> /\ zone_owner(area) # <<"">>

\* the Plot built from one zone of dimension key dim_id_str
plot_of_zone(dim_id_str, area) ==
  LET given == FirstPresent(area.groupPermissions, "display")
      area_coords == Get(area.area, [low |-> <<>>, high |-> <<>>])
      low == Get(area_coords.low, [x |-> <<>>, z |-> <<>>])
      high == Get(area_coords.high, [x |-> <<>>, z |-> <<>>])
  IN [name |-> area.name,
      display_name |-> IF given = <<>> \/ given = << <<>> >> THEN area.name ELSE given[1],
      owner_uuid |-> zone_owner(area)[1],
      owner_name |-> resolve_owner_name(area.playerPermissions, zone_owner(area)),
      x_min |-> Get(low.x, 0),
      z_min |-> Get(low.z, 0),
      x_max |-> Get(high.x, 0),
      z_max |-> Get(high.z, 0),
      dimension |-> DimInt(dim_id_str),
      original_area_data |-> area]

RECURSIVE parse_refs(_, _)
parse_refs(json_data, refs) ==
  IF refs = <<>> THEN <<>>
  ELSE LET area == ZoneAt(json_data, Head(refs))
       IN (IF is_owned(area) THEN <<plot_of_zone(Head(refs)[1], area)>> ELSE <<>>)
          \o parse_refs(json_data, Tail(refs))

parse_plots(json_data) == parse_refs(json_data, ZoneRefs(json_data))

\* ------------------------------------------------ merge_adjacent_plots
\* The function in one piece.  st holds the locals used, removed_names and
\* merged, and ok, which is FALSE once Plot.merge has raised.
\* The inner for with merged_plot kept as plot1: every later plot is tested
\* against the rectangle plot1 started with
RECURSIVE inner_for_first_rect(_, _, _, _, _)
inner_for_first_rect(merged_plot, result, i, j, st) ==
  IF j > Len(result) THEN [merged_plot |-> merged_plot, st |-> st]
  ELSE IF i >= j \/ j \in st.used THEN inner_for_first_rect(merged_plot, result, i, j + 1, st)
  ELSE IF can_merge(result[i], result[j])
       THEN IF MergeRaises(merged_plot, result[j])
            THEN [merged_plot |-> merged_plot, st |-> [st EXCEPT !.ok = FALSE]]
            ELSE inner_for_first_rect(merge(merged_plot, result[j]), result, i, j + 1,
                           [st EXCEPT !.removed_names = Append(@, result[j].name),
                                      !.used = @ \cup {j},
                                      !.merged = TRUE])
       ELSE inner_for_first_rect(merged_plot, result, i, j + 1, st)

\* for j, plot2 in enumerate(result): from index j on, for plot1 = result[i]
RECURSIVE inner_for(_, _, _, _, _)
inner_for(merged_plot, result, i, j, st) ==
  IF j > Len(result) THEN [merged_plot |-> merged_plot, st |-> st]
  ELSE IF i >= j \/ j \in st.used THEN inner_for(merged_plot, result, i, j + 1, st)
  ELSE IF can_merge(merged_plot, result[j])
       THEN IF MergeRaises(merged_plot, result[j])
            THEN [merged_plot |-> merged_plot, st |-> [st EXCEPT !.ok = FALSE]]
            ELSE inner_for(merge(merged_plot, result[j]), result, i, j + 1,
                           [st EXCEPT !.removed_names = Append(@, result[j].name),
                                      !.used = @ \cup {j},
                                      !.merged = TRUE])
       ELSE inner_for(merged_plot, result, i, j + 1, st)

\* for i, plot1 in enumerate(result): from index i on
RECURSIVE outer_for(_, _, _, _)
outer_for(result, i, new_result, st) ==
  IF i > Len(result) \/ ~st.ok THEN [new_result |-> new_result, st |-> st]
  ELSE IF i \in st.used THEN outer_for(result, i + 1, new_result, st)
  ELSE LET grown == inner_for(result[i], result, i, 1, st)
       IN outer_for(result, i + 1, Append(new_result, grown.merged_plot),
                    [grown.st EXCEPT !.used = @ \cup {i}])

\* while merged: one pass, and the passes after it
RECURSIVE while_merged(_, _)
while_merged(result, removed_names) ==
  LET pass == outer_for(result, 1, <<>>,
                        [used |-> {}, removed_names |-> removed_names,
                         merged |-> FALSE, ok |-> TRUE])
  IN IF ~pass.st.ok
     THEN [ok |-> FALSE, merged_plots |-> <<>>, removed_names |-> <<>>]
     ELSE IF pass.st.merged THEN while_merged(pass.new_result, pass.st.removed_names)
     ELSE [ok |-> TRUE, merged_plots |-> pass.new_result,
           removed_names |-> pass.st.removed_names]

\* merge_adjacent_plots(plots): [ok |-> FALSE, ...] when Plot.merge raises
merge_adjacent_plots(plots) ==
  IF plots = <<>> THEN [ok |-> TRUE, merged_plots |-> plots, removed_names |-> <<>>]
  ELSE while_merged(plots, <<>>)

\* ------------------------------------- update_json_with_merged_plots
\* the list comprehension that drops the zones named in removed_names
drop_removed(area_zones, removed_names) ==
  SelectSeq(area_zones, LAMBDA area : ~InList(area.name, removed_names))

\* index of the first zone of the list with the name, 0 when there is none
first_named(area_zones, name) ==
  IF \E k \in 1..Len(area_zones) : area_zones[k].name = name
  THEN CHOOSE k \in 1..Len(area_zones) :
         /\ area_zones[k].name = name
         /\ \A m \in 1..(k - 1) : area_zones[m].name # name
  ELSE 0

\* the coordinate loop over merged_plots on the filtered document:
\* [ok |-> FALSE] when an assignment raises KeyError
RECURSIVE write_coords(_, _)
write_coords(world_zones, merged_plots) ==
  IF merged_plots = <<>> THEN [ok |-> TRUE, data |-> world_zones]
  ELSE LET plot == Head(merged_plots)
           dim_id_str == DimStr(plot.dimension)
           k == IF dim_id_str \in DOMAIN world_zones
                THEN first_named(world_zones[dim_id_str], plot.name)
                ELSE 0
       IN IF k = 0 THEN write_coords(world_zones, Tail(merged_plots))
          ELSE IF SetCoordsRaises(world_zones[dim_id_str][k])
               THEN [ok |-> FALSE, data |-> world_zones]
               ELSE write_coords(
                      [world_zones EXCEPT ![dim_id_str][k] =
                         SetCoords(@, plot.x_min, plot.z_min, plot.x_max, plot.z_max)],
                      Tail(merged_plots))

update_json_with_merged_plots(json_data, merged_plots, removed_names) ==
  write_coords([d \in DOMAIN json_data |-> drop_removed(json_data[d], removed_names)],
               merged_plots)

\* ------------------------------------------------------------ the state
VARIABLES
  pc,             \* position in main / merge_adjacent_plots
  json_data,      \* the document object loaded by main and passed to renumber_plots
  parsed_doc,     \* the document object passed to parse_plots, whose zones the
                  \* Plots reference, and then to update_json_with_merged_plots
  data,           \* main's working document
  renamed_count,  \* second result of renumber_plots
  plots,          \* result of parse_plots
  result,         \* merge_adjacent_plots: the list of the current pass
  new_result,     \* merge_adjacent_plots: the list the pass builds
  used,           \* merge_adjacent_plots: consumed indexes of result
  i,              \* index of plot1 in result (1-based)
  j,              \* index the inner loop continues from (1-based)
  merged_plot,    \* the plot that plot1 has grown into
  merged,         \* the loop flag
  removed_names,  \* names recorded as removed
  merged_plots,   \* first result of merge_adjacent_plots
  passes,         \* executions of the while body so far
  absorbed        \* ids of the zones whose plot was the second operand of a merge

vars == <<pc, json_data, parsed_doc, data, renamed_count, plots, result, new_result, used, i, j,
          merged_plot, merged, removed_names, merged_plots, passes, absorbed>>

mergeVars == <<result, new_result, used, i, j, merged_plot, merged, removed_names,
               merged_plots, passes, absorbed>>

\* ---------------------------------------------------------- input documents
PlotName(n) == Prefix \o FormatInt(n)

Area(lx, lz, hx, hz) ==
  << [low |-> << [x |-> <<lx>>, z |-> <<lz>>] >>, high |-> << [x |-> <<hx>>, z |-> <<hz>>] >>] >>

OwnedBy(u) == << [owner |-> <<u>>, display |-> <<>>] >>

\* uid is the identity of the zone dict: it stands for the zone's remaining
\* entries, which no function of the pipeline reads or writes
Zone(uid, name, groups, players, area) ==
  [uid |-> uid, name |-> name, groupPermissions |-> groups,
   playerPermissions |-> players, area |-> area]

\* zones of a row that grows into one rectangle: (0,0) (1,0), then full rows above
ChainArea(k) ==
  IF k = 1 THEN Area(0, 0, 0, 0)
  ELSE IF k = 2 THEN Area(1, 0, 1, 0)
  ELSE Area(0, k - 2, 1, k - 2)

\* the document holding the zones zs[k] under the keys ds[k], in order
DocOf(ds, zs) ==
  [d \in DimKeys |->
     LET idx == {k \in 1..Len(zs) : ds[k] = d}
         RECURSIVE pick(_)
         pick(k) == IF k > Len(zs) THEN <<>>
                    ELSE (IF k \in idx THEN <<zs[k]>> ELSE <<>>) \o pick(k + 1)
     IN pick(1)]

\* Family 1: a row of rectangles one block deep whose x corners range over
\* LineCoord in either order, so that gaps and inverted corners occur; a
\* column of such rectangles with low <= high; and the rectangles of the
\* 2 x 2 square.  One owner, one dimension, contiguous placeholder names.
LineCoord == 0..2
RowRects == {<<lx, 0, hx, 0>> : lx \in LineCoord, hx \in LineCoord}
ColumnRects == {<<0, c[1], 0, c[2]>> : c \in {d \in LineCoord \X LineCoord : d[1] <= d[2]}}

SquareCoord == 0..1
SquareRects ==
  {r \in SquareCoord \X SquareCoord \X SquareCoord \X SquareCoord :
     r[1] <= r[3] /\ r[2] <= r[4]}

GeometryDoc(n, r) ==
  DocOf([k \in 1..n |-> "0"],
        [k \in 1..n |-> Zone(k, PlotName(k), OwnedBy("A"), <<>>,
                             Area(r[k][1], r[k][2], r[k][3], r[k][4]))])

\* Family 2: the chain of rectangles, up to MaxVaried zones each with one
\* variation of dimension, permissions or of the entries its area holds.
DropFrom(area, shape) ==
  IF shape = "no_area" THEN <<>>
  ELSE IF shape = "no_low" THEN << [area[1] EXCEPT !.low = <<>>] >>
  ELSE IF shape = "no_high" THEN << [area[1] EXCEPT !.high = <<>>] >>
  ELSE IF shape = "no_low_x" THEN << [area[1] EXCEPT !.low = << [@[1] EXCEPT !.x = <<>>] >>] >>
  ELSE area

Variant(dim, groups, players, shape) ==
  [dim |-> dim, groups |-> groups, players |-> players, shape |-> shape]

Hof == <<"H", "o", "f">>
Gut == <<"G", "u", "t">>

PlainVariant == Variant("0", OwnedBy("A"), <<>>, "full")

Variants ==
  { PlainVariant,
    Variant("0", OwnedBy("B"), <<>>, "full"),
    Variant("1", OwnedBy("A"), <<>>, "full"),
    Variant("0", <<>>, <<>>, "full"),
    Variant("0", OwnedBy(""), <<>>, "full"),
    Variant("0", << [owner |-> <<>>, display |-> <<Hof>>], [owner |-> <<"A">>, display |-> <<>>] >>,
            <<>>, "full"),
    Variant("0", << [owner |-> <<"A">>, display |-> <<Gut>>] >>, <<>>, "full"),
    Variant("0", << [owner |-> <<"A">>, display |-> <<>>], [owner |-> <<"B">>, display |-> <<Gut>>] >>,
            <<>>, "full"),
    Variant("0", OwnedBy("A"),
            << [parts |-> <<"B", "bob">>, plot_owner |-> TRUE],
               [parts |-> <<"A", "alice">>, plot_owner |-> TRUE] >>, "full"),
    Variant("0", OwnedBy("A"), <<>>, "no_area"),
    Variant("0", OwnedBy("A"), <<>>, "no_high"),
    Variant("0", OwnedBy("A"), <<>>, "no_low_x") }

VariantDoc(n, v) ==
  DocOf([k \in 1..n |-> v[k].dim],
        [k \in 1..n |-> Zone(k, PlotName(k), v[k].groups, v[k].players,
                             DropFrom(ChainArea(k), v[k].shape))])

\* Family 3: the chain of rectangles under names of every kind; the last
\* zone of either owner and in either dimension.  Names are unique within a
\* dimension.
NamePool ==
  { PlotName(1), PlotName(2), PlotName(5),
    Prefix \o <<"0", "1">>,          \* leading zero
    Prefix \o <<"2", "a">>,          \* characters after the digits
    Hof }

NamedDoc(n, nm, lastOwner, lastDim) ==
  DocOf([k \in 1..n |-> IF k = n THEN lastDim ELSE "0"],
        [k \in 1..n |-> Zone(k, nm[k], OwnedBy(IF k = n THEN lastOwner ELSE "A"), <<>>,
                             ChainArea(k))])

UniqueNames(doc) ==
  \A d \in DOMAIN doc : \A a, b \in 1..Len(doc[d]) : doc[d][a].name = doc[d][b].name => a = b

\* Family 4: one or two of the ten-block squares x[0,9], x[10,19] and
\* x[11,20] over z[0,9] and the single block (5, 5).
ScenarioRects == {<<0, 0, 9, 9>>, <<10, 0, 19, 9>>, <<11, 0, 20, 9>>, <<5, 5, 5, 5>>}

InputDoc(doc) ==
  \E n \in 1..MaxZones :
    \/ \E r \in [1..n -> RowRects] : doc = GeometryDoc(n, r)
    \/ \E r \in [1..n -> ColumnRects] : doc = GeometryDoc(n, r)
    \/ \E r \in [1..n -> SquareRects] : doc = GeometryDoc(n, r)
    \/ \E r \in [1..n -> ScenarioRects] : n <= 2 /\ doc = GeometryDoc(n, r)
    \/ \E v \in [1..n -> Variants] :
         /\ Cardinality({k \in 1..n : v[k] # PlainVariant}) <= MaxVaried
         /\ doc = VariantDoc(n, v)
    \/ \E nm \in [1..n -> NamePool] : \E lastOwner \in {"A", "B"} : \E lastDim \in DimKeys :
         /\ doc = NamedDoc(n, nm, lastOwner, lastDim)
         /\ UniqueNames(doc)

NoPlot == [name |-> <<>>]

\* no document has been passed to parse_plots yet
NoDoc == [d \in DimKeys |-> <<>>]

Init ==
  /\ InputDoc(json_data)
  /\ pc = "renumber"
  /\ data = json_data
  /\ parsed_doc = NoDoc
  /\ renamed_count = 0
  /\ plots = <<>>
  /\ result = <<>>
  /\ new_result = <<>>
  /\ used = {}
  /\ i = 0
  /\ j = 0
  /\ merged_plot = NoPlot
  /\ merged = FALSE
  /\ removed_names = <<>>
  /\ merged_plots = <<>>
  /\ passes = 0
  /\ absorbed = {}

\* ------------------------------------------------------------------ main
\* renumber_plots without the deepcopy: the renaming loop writes to the zones
\* of the document passed in
Renumber_in_place ==
  /\ pc = "renumber"
  /\ data' = renumber_plots(json_data).data
  /\ json_data' = renumber_plots(json_data).data
  /\ renamed_count' = renumber_plots(json_data).renamed_count
  /\ pc' = "parse"
  /\ UNCHANGED <<parsed_doc, plots>>
  /\ UNCHANGED mergeVars

\* data, renamed_count = renumber_plots(data): data = deepcopy(json_data), and
\* the renaming loop writes to the zones of the copy
Renumber ==
  /\ pc = "renumber"
  /\ data' = renumber_plots(json_data).data
  /\ renamed_count' = renumber_plots(json_data).renamed_count
  /\ pc' = "parse"
  /\ UNCHANGED <<json_data, parsed_doc, plots>>
  /\ UNCHANGED mergeVars

\* plots = parse_plots(data)
Parse ==
  /\ pc = "parse"
  /\ plots' = parse_plots(data)
  /\ parsed_doc' = data
  /\ pc' = "merge"
  /\ UNCHANGED <<json_data, data, renamed_count>>
  /\ UNCHANGED mergeVars

\* ------------------------------------------------- merge_adjacent_plots
\* if not plots: return plots, []
MergeEmpty ==
  /\ pc = "merge"
  /\ plots = <<>>
  /\ merged_plots' = plots
  /\ removed_names' = <<>>
  /\ pc' = "patch"
  /\ UNCHANGED <<json_data, parsed_doc, data, renamed_count, plots, result, new_result, used, i, j,
                 merged_plot, merged, passes, absorbed>>

\* merged = True; result = plots[:]; removed_names = []
MergeEnter ==
  /\ pc = "merge"
  /\ plots # <<>>
  /\ merged' = TRUE
  /\ result' = plots
  /\ removed_names' = <<>>
  /\ pc' = "while"
  /\ UNCHANGED <<json_data, parsed_doc, data, renamed_count, plots, new_result, used, i, j,
                 merged_plot, merged_plots, passes, absorbed>>

\* the while body without `merged = False`
StartPass_flag_kept ==
  /\ pc = "while"
  /\ merged
  /\ new_result' = <<>>
  /\ used' = {}
  /\ i' = 1
  /\ passes' = passes + 1
  /\ pc' = "for_i"
  /\ UNCHANGED <<json_data, parsed_doc, data, renamed_count, plots, result, j, merged_plot, merged,
                 removed_names, merged_plots, absorbed>>

\* while merged: merged = False; new_result = []; used = set()
StartPass ==
  /\ pc = "while"
  /\ merged
  /\ merged' = FALSE
  /\ new_result' = <<>>
  /\ used' = {}
  /\ i' = 1
  /\ passes' = passes + 1
  /\ pc' = "for_i"
  /\ UNCHANGED <<json_data, parsed_doc, data, renamed_count, plots, result, j, merged_plot,
                 removed_names, merged_plots, absorbed>>

\* the loop ends: return result, removed_names
MergeReturn ==
  /\ pc = "while"
  /\ ~merged
  /\ merged_plots' = result
  /\ pc' = "patch"
  /\ UNCHANGED <<json_data, parsed_doc, data, renamed_count, plots, result, new_result, used, i, j,
                 merged_plot, merged, removed_names, passes, absorbed>>

\* the outer for: the indexes in used are skipped (continue)
NextUnused(from) ==
  IF \E k \in from..Len(result) : k \notin used
  THEN CHOOSE k \in from..Len(result) :
         k \notin used /\ \A m \in from..(k - 1) : m \in used
  ELSE 0

\* merged_plot = plot1
NextPlot ==
  /\ pc = "for_i"
  /\ NextUnused(i) # 0
  /\ i' = NextUnused(i)
  /\ merged_plot' = result[NextUnused(i)]
  /\ j' = 1
  /\ pc' = "for_j"
  /\ UNCHANGED <<json_data, parsed_doc, data, renamed_count, plots, result, new_result, used,
                 merged, removed_names, merged_plots, passes, absorbed>>

\* the outer for is exhausted: result = new_result
EndPass ==
  /\ pc = "for_i"
  /\ NextUnused(i) = 0
  /\ result' = new_result
  /\ pc' = "while"
  /\ UNCHANGED <<json_data, parsed_doc, data, renamed_count, plots, new_result, used, i, j,
                 merged_plot, merged, removed_names, merged_plots, passes, absorbed>>

\* the inner for: the first index from j on that passes `i >= j or j in used`
\* and for which merged_plot.can_merge(plot2) holds, 0 when there is none
Candidate(k) == i < k /\ k \notin used /\ can_merge(merged_plot, result[k])

NextCandidate ==
  IF \E k \in j..Len(result) : Candidate(k)
  THEN CHOOSE k \in j..Len(result) :
         Candidate(k) /\ \A m \in j..(k - 1) : ~Candidate(m)
  ELSE 0

\* the merge step without `merged = True`
Absorb_unflagged ==
  /\ pc = "for_j"
  /\ NextCandidate # 0
  /\ ~MergeRaises(merged_plot, result[NextCandidate])
  /\ merged_plot' = merge(merged_plot, result[NextCandidate])
  /\ removed_names' = Append(removed_names, result[NextCandidate].name)
  /\ used' = used \cup {NextCandidate}
  /\ j' = NextCandidate + 1
  /\ absorbed' = absorbed \cup {result[NextCandidate].original_area_data.uid}
  /\ UNCHANGED <<pc, json_data, parsed_doc, data, renamed_count, plots, result, new_result, i,
                 merged, merged_plots, passes>>

\* merged_plot = Plot.merge(merged_plot, plot2); removed_names.append(plot2.name);
\* used.add(j); merged = True
Absorb ==
  /\ pc = "for_j"
  /\ NextCandidate # 0
  /\ ~MergeRaises(merged_plot, result[NextCandidate])
  /\ merged_plot' = merge(merged_plot, result[NextCandidate])
  /\ removed_names' = Append(removed_names, result[NextCandidate].name)
  /\ used' = used \cup {NextCandidate}
  /\ merged' = TRUE
  /\ j' = NextCandidate + 1
  /\ absorbed' = absorbed \cup {result[NextCandidate].original_area_data.uid}
  /\ UNCHANGED <<pc, json_data, parsed_doc, data, renamed_count, plots, result, new_result, i,
                 merged_plots, passes>>

\* Plot.merge raises KeyError: the exception leaves merge_adjacent_plots and main
AbsorbRaises ==
  /\ pc = "for_j"
  /\ NextCandidate # 0
  /\ MergeRaises(merged_plot, result[NextCandidate])
  /\ pc' = "raised"
  /\ UNCHANGED <<json_data, parsed_doc, data, renamed_count, plots>>
  /\ UNCHANGED mergeVars

\* the inner for is exhausted: new_result.append(merged_plot); used.add(i)
AppendPlot ==
  /\ pc = "for_j"
  /\ NextCandidate = 0
  /\ new_result' = Append(new_result, merged_plot)
  /\ used' = used \cup {i}
  /\ i' = i + 1
  /\ pc' = "for_i"
  /\ UNCHANGED <<json_data, parsed_doc, data, renamed_count, plots, result, j, merged_plot, merged,
                 removed_names, merged_plots, passes, absorbed>>

\* ------------------------------------------- main, after the merge
merged_count == Len(plots) - Len(merged_plots)

\* data = update_json_with_merged_plots(data, merged_plots, removed_names):
\* the function filters and writes a deepcopy of the document passed in, and
\* main binds data to the copy returned
PatchUpdate ==
  /\ pc = "patch"
  /\ merged_count > 0
  /\ update_json_with_merged_plots(data, merged_plots, removed_names).ok
  /\ data' = update_json_with_merged_plots(data, merged_plots, removed_names).data
  /\ pc' = "done"
  /\ UNCHANGED <<json_data, parsed_doc, renamed_count, plots>>
  /\ UNCHANGED mergeVars

\* an assignment of the coordinate loop raises KeyError
PatchRaises ==
  /\ pc = "patch"
  /\ merged_count > 0
  /\ ~update_json_with_merged_plots(data, merged_plots, removed_names).ok
  /\ pc' = "raised"
  /\ UNCHANGED <<json_data, parsed_doc, data, renamed_count, plots>>
  /\ UNCHANGED mergeVars

\* merged_count = 0: the document is left as it is
PatchSkip ==
  /\ pc = "patch"
  /\ merged_count = 0
  /\ pc' = "done"
  /\ UNCHANGED <<json_data, parsed_doc, data, renamed_count, plots>>
  /\ UNCHANGED mergeVars

Next ==
  \/ Renumber
  \/ Parse
  \/ MergeEmpty
  \/ MergeEnter
  \/ StartPass
  \/ MergeReturn
  \/ NextPlot
  \/ EndPass
  \/ Absorb
  \/ AbsorbRaises
  \/ AppendPlot
  \/ PatchUpdate
  \/ PatchRaises
  \/ PatchSkip

Spec == Init /\ [][Next]_vars

\* ------------------------------------------------------------ properties
RECURSIVE SumArea(_)
SumArea(ps) == IF ps = <<>> THEN 0 ELSE get_area_m2(Head(ps)) + SumArea(Tail(ps))

\* merge_adjacent_plots has been entered and has not raised
InMerge == pc \in {"while", "for_i", "for_j", "patch", "done"}

Returned == pc \in {"patch", "done"}

\* the plots of result that the running pass has not consumed, in order
RECURSIVE Unconsumed(_)
Unconsumed(k) ==
  IF k > Len(result) THEN <<>>
  ELSE (IF k \in used \/ (pc = "for_j" /\ k = i) THEN <<>> ELSE <<result[k]>>)
       \o Unconsumed(k + 1)

\* the plots that stand for the input at this point of the loop: the list of
\* the pass between passes, and inside a pass what the pass has built, the
\* plot being grown and what is still unconsumed; the returned list at the end
LivePlots ==
  IF pc = "while" THEN result
  ELSE IF pc = "for_i" THEN new_result \o Unconsumed(1)
  ELSE IF pc = "for_j" THEN new_result \o <<merged_plot>> \o Unconsumed(1)
  ELSE merged_plots

Normalized(p) == p.x_min <= p.x_max /\ p.z_min <= p.z_max

AllNormalized == \A k \in 1..Len(plots) : Normalized(plots[k])

\* C1 as stated: for any list of Plots the total area is the same after every
\* merge step and on return as it was for the input list.
C1_AreaConservedAnyPlots ==
  InMerge => SumArea(LivePlots) = SumArea(plots)

\* C1, amended: when every input Plot has x_min <= x_max and z_min <= z_max,
\* the total area after every merge step of the loop and over the returned
\* list equals the total area of the input list.
C1_AreaConserved ==
  (InMerge /\ AllNormalized) => SumArea(LivePlots) = SumArea(plots)

\* two merges were performed on normalized plots and the list was returned
C1_Witness ==
  /\ Returned
  /\ AllNormalized
  /\ Len(plots) - Len(merged_plots) >= 2

\* C3: the while loop of merge_adjacent_plots runs its body at most n times for
\* n input Plots: the list of every pass after the first is strictly shorter
\* than the list of the pass before, a pass that merged leaves a shorter
\* list, and inside a pass the two loop indexes stay within the list.
C3_MergeTerminates ==
  /\ passes <= Len(plots)
  /\ (pc \in {"for_i", "for_j"} => Len(result) + (passes - 1) <= Len(plots))
  /\ ((pc = "while" /\ merged /\ passes >= 1) => Len(result) + passes <= Len(plots))
  /\ (pc \in {"for_i", "for_j"} => i <= Len(result) + 1)
  /\ (pc = "for_j" => j <= Len(result) + 1)

\* three plots needed three passes: two passes that merged and the last one
C3_Witness ==
  /\ Returned
  /\ Len(plots) >= 3
  /\ passes = Len(plots)

\* the definition of mergeable(P, Q) of the design
HorizontallyAdjacent(P, Q) ==
  /\ P.z_min = Q.z_min /\ P.z_max = Q.z_max
  /\ (P.x_max + 1 = Q.x_min \/ Q.x_max + 1 = P.x_min)

VerticallyAdjacent(P, Q) ==
  /\ P.x_min = Q.x_min /\ P.x_max = Q.x_max
  /\ (P.z_max + 1 = Q.z_min \/ Q.z_max + 1 = P.z_min)

Mergeable(P, Q) ==
  /\ P.dimension = Q.dimension
  /\ P.owner_uuid = Q.owner_uuid
  /\ (HorizontallyAdjacent(P, Q) \/ VerticallyAdjacent(P, Q))

\* at least one block lies between the blocks of P and those of Q on an axis
SeparatedByGap(P, Q) ==
  \/ Max(P.x_min, P.x_max) + 1 < Min(Q.x_min, Q.x_max)
  \/ Max(Q.x_min, Q.x_max) + 1 < Min(P.x_min, P.x_max)
  \/ Max(P.z_min, P.z_max) + 1 < Min(Q.z_min, Q.z_max)
  \/ Max(Q.z_min, Q.z_max) + 1 < Min(P.z_min, P.z_max)

\* C4: can_merge is true exactly for plots of one dimension and one owner
\* that are horizontally or vertically adjacent, for the input plots and for
\* every plot the loop has grown; plots separated by a gap are never
\* mergeable, and two such plots are returned unchanged with nothing removed.
C4_Mergeability ==
  /\ \A a, b \in 1..Len(plots) :
       /\ can_merge(plots[a], plots[b]) <=> Mergeable(plots[a], plots[b])
       /\ SeparatedByGap(plots[a], plots[b]) => ~can_merge(plots[a], plots[b])
  /\ pc = "for_j" =>
       \A k \in 1..Len(result) :
         /\ can_merge(merged_plot, result[k]) <=> Mergeable(merged_plot, result[k])
         /\ SeparatedByGap(merged_plot, result[k]) => ~can_merge(merged_plot, result[k])
  /\ (Returned /\ Len(plots) = 2 /\ SeparatedByGap(plots[1], plots[2])) =>
       (merged_plots = plots /\ removed_names = <<>>)

\* two plots of one owner and one dimension with a gap between them went
\* through the merge
C4_Witness ==
  /\ Returned
  /\ Len(plots) = 2
  /\ plots[1].owner_uuid = plots[2].owner_uuid
  /\ plots[1].dimension = plots[2].dimension
  /\ SeparatedByGap(plots[1], plots[2])
  /\ plots[1].z_min = plots[2].z_min /\ plots[1].z_max = plots[2].z_max

Count(x, s) == Cardinality({k \in 1..Len(s) : s[k] = x})

\* C9: the plot being grown keeps the name, owner and dimension of the plot
\* it started from; every merge adds one entry to removed_names, the name of
\* the absorbed plot; so the plots standing for the input plus the removed
\* names number the input plots at every step and on return, and on return
\* every input name is the name of a returned plot or a removed name.
C9_Bookkeeping ==
  /\ pc = "for_j" =>
       /\ merged_plot.name = result[i].name
       /\ merged_plot.owner_uuid = result[i].owner_uuid
       /\ merged_plot.dimension = result[i].dimension
  /\ InMerge =>
       /\ Len(LivePlots) + Len(removed_names) = Len(plots)
       /\ Len(removed_names) = Cardinality(absorbed)
       /\ \A k \in 1..Len(plots) :
            Count(plots[k].name, removed_names)
              = Cardinality({m \in 1..Len(plots) :
                               /\ plots[m].name = plots[k].name
                               /\ plots[m].original_area_data.uid \in absorbed})
  /\ Returned =>
       \A k \in 1..Len(plots) :
         \/ \E m \in 1..Len(merged_plots) : merged_plots[m].name = plots[k].name
         \/ InList(plots[k].name, removed_names)

\* the list was returned after two merges
C9_Witness ==
  /\ Returned
  /\ Len(removed_names) >= 2
  /\ Len(merged_plots) + Len(removed_names) = Len(plots)

\* C2: renumber_plots applied to the document renumber_plots returned gives
\* the same document and zero renames.
C2_RenumberIdempotent ==
  pc = "parse" => renumber_plots(data) = [data |-> data, renamed_count |-> 0]

\* renumber_plots renamed zones, and its result is the working document
C2_Witness ==
  /\ pc = "parse"
  /\ renamed_count > 0
  /\ data # json_data

\* the 1-based rank of a number among the sorted distinct numbers of the document
RankIn(doc, n) == Cardinality({m \in existing_numbers(doc) : m <= n})

\* C10 as stated: when the numbers found are not 1..count, every matching
\* name becomes the prefix followed by the rank of its number, every other
\* name is untouched, the count returned is the number of changed names, and
\* the numbers found afterwards are 1..count of the distinct numbers.
C10_RenumberPostcondition ==
  (pc = "parse" /\ needs_renumbering(json_data)) =>
    /\ \A d \in DimKeys : \A k \in 1..Len(json_data[d]) :
         LET old_name == json_data[d][k].name
             num == extract_plot_number(old_name)
         IN IF num # <<>>
            THEN data[d][k].name = Prefix \o FormatInt(RankIn(json_data, num[1]))
            ELSE data[d][k].name = old_name
    /\ renamed_count =
         Cardinality({r \in 1..Len(ZoneRefs(json_data)) :
            ZoneAt(data, ZoneRefs(json_data)[r]).name
              # ZoneAt(json_data, ZoneRefs(json_data)[r]).name})
    /\ existing_numbers(data) = 1..Cardinality(existing_numbers(json_data))

\* C6 as stated: merge_adjacent_plots, Plot.merge and
\* update_json_with_merged_plots never raise on what parse_plots returned.
C6_NeverRaises == pc # "raised"

IsPlaceholder(name) == StartsWith(name, Prefix)

\* the display-name policy of the design, first match wins
CombinedName(P, Q) ==
  IF IsPlaceholder(P.display_name) /\ IsPlaceholder(Q.display_name)
  THEN MergedPlaceholder
  ELSE IF IsPlaceholder(P.display_name) THEN Q.display_name
  ELSE IF IsPlaceholder(Q.display_name) THEN P.display_name
  ELSE P.display_name \o Separator \o Q.display_name

\* C7 as stated: every merge the loop is about to perform gives the display
\* name of the policy: the combined placeholder for two placeholders, the
\* other name when exactly one is a placeholder, both names joined by the
\* separator when neither is.
C7_DisplayNameCombination ==
  (pc = "for_j" /\ NextCandidate # 0) =>
    IF MergeRaises(merged_plot, result[NextCandidate]) THEN TRUE
    ELSE merge(merged_plot, result[NextCandidate]).display_name
           = CombinedName(merged_plot, result[NextCandidate])

\* the step in which main replaces data by update_json_with_merged_plots(...)
PatchStep == pc = "patch" /\ pc' = "done" /\ merged_count > 0

\* C5 as stated, for working documents whose zone names are unique within
\* each dimension: every zone that was not itself absorbed by a merge (a zone
\* of another dimension with the name of an absorbed zone included) is still
\* in the zone list of its dimension after the patch.
C5_OnlyAbsorbedRemoved ==
  [][(PatchStep /\ UniqueNames(data)) =>
       \A d \in DimKeys : \A k \in 1..Len(data[d]) :
         data[d][k].uid \notin absorbed =>
           \E m \in 1..Len(data'[d]) : data'[d][m].uid = data[d][k].uid]_vars

\* the four coordinate entries of a zone that holds them
ZoneRect(zone) ==
  <<zone.area[1].low[1].x, zone.area[1].low[1].z,
    zone.area[1].high[1].x, zone.area[1].high[1].z>>

HasRect(zone, plot) ==
  IF SetCoordsRaises(zone) THEN FALSE
  ELSE ZoneRect(zone) = << <<plot.x_min>>, <<plot.z_min>>, <<plot.x_max>>, <<plot.z_max>> >>

\* C8 as stated: after the patch the zone matching a surviving Plot's name in
\* the Plot's dimension holds the Plot's rectangle and is otherwise as before;
\* a surviving zone that matches no surviving Plot is as before.
C8_OnlyCoordinatesWritten ==
  [][PatchStep =>
       \A d \in DimKeys : \A m \in 1..Len(data'[d]) :
         LET after == data'[d][m]
             before == data[d][CHOOSE k \in 1..Len(data[d]) : data[d][k].uid = after.uid]
             owners == {q \in 1..Len(merged_plots) :
                          /\ merged_plots[q].name = after.name
                          /\ DimStr(merged_plots[q].dimension) = d}
         IN /\ after.name = before.name
            /\ after.groupPermissions = before.groupPermissions
            /\ after.playerPermissions = before.playerPermissions
            /\ \A q \in owners : HasRect(after, merged_plots[q])
            /\ owners = {} => after = before]_vars

\* a coordinate of the zone's rectangle, 0 when the entry is missing
CoordOrZero(zone, corner, axis) ==
  IF zone.area = <<>> THEN 0
  ELSE IF zone.area[1][corner] = <<>> THEN 0
  ELSE IF zone.area[1][corner][1][axis] = <<>> THEN 0
  ELSE zone.area[1][corner][1][axis][1]

\* some group of the zone holds the plot-owner key
SuppliesOwner(zone) ==
  \E g \in 1..Len(zone.groupPermissions) : zone.groupPermissions[g].owner # <<>>

\* the first group of the zone that holds the plot-owner key holds a
\* non-empty value under it
SuppliesNonEmptyOwner(zone) ==
  \E g \in 1..Len(zone.groupPermissions) :
    /\ zone.groupPermissions[g].owner # <<>>
    /\ zone.groupPermissions[g].owner # <<"">>
    /\ \A m \in 1..(g - 1) : zone.groupPermissions[m].owner = <<>>

\* plots holds, in the order of refs, one Plot per zone of refs: built from
\* that zone, in the zone's dimension, owned by the value of the first group
\* holding the owner key, with the zone's coordinates and 0 for a missing one
ExtractedFrom(refs) ==
  /\ Len(plots) = Len(refs)
  /\ \A k \in 1..Len(plots) :
       LET zone == ZoneAt(data, refs[k])
       IN /\ plots[k].original_area_data = zone
          /\ plots[k].name = zone.name
          /\ DimStr(plots[k].dimension) = refs[k][1]
          /\ \E g \in 1..Len(zone.groupPermissions) :
               /\ zone.groupPermissions[g].owner = <<plots[k].owner_uuid>>
               /\ \A m \in 1..(g - 1) : zone.groupPermissions[m].owner = <<>>
          /\ plots[k].x_min = CoordOrZero(zone, "low", "x")
          /\ plots[k].z_min = CoordOrZero(zone, "low", "z")
          /\ plots[k].x_max = CoordOrZero(zone, "high", "x")
          /\ plots[k].z_max = CoordOrZero(zone, "high", "z")

\* parse_plots has returned and data is still the document it read
Parsed == pc \notin {"renumber", "parse", "done"}

\* C11 as stated: parse_plots returns, in traversal order, one Plot for each
\* zone in which some group holds the plot-owner key and none for any other
\* zone; the owner is the value of the first group holding the key and a
\* missing coordinate is 0.
C11_ExtractionAnyOwnerValue ==
  Parsed =>
    ExtractedFrom(SelectSeq(ZoneRefs(data), LAMBDA ref : SuppliesOwner(ZoneAt(data, ref))))

\* C11, amended: parse_plots returns, in traversal order (dimension order,
\* then zone order), one Plot for each zone whose first group holding the
\* plot-owner key holds a non-empty value, and none for any other zone; the
\* owner is that value and a missing coordinate is 0.
C11_Extraction ==
  Parsed =>
    ExtractedFrom(SelectSeq(ZoneRefs(data),
                            LAMBDA ref : SuppliesNonEmptyOwner(ZoneAt(data, ref))))

\* parse_plots ran on a document with a zone whose owner value is empty and a
\* zone whose owner comes from its second group
C11_Witness ==
  /\ pc = "merge"
  /\ \E r \in 1..Len(ZoneRefs(data)) :
       LET zone == ZoneAt(data, ZoneRefs(data)[r])
       IN SuppliesOwner(zone) /\ ~SuppliesNonEmptyOwner(zone)
  /\ \E k \in 1..Len(plots) :
       /\ Len(plots[k].original_area_data.groupPermissions) = 2
       /\ plots[k].original_area_data.groupPermissions[1].owner = <<>>

\* the zone of the document with the identity uid
ZoneOf(doc, uid) ==
  LET ref == CHOOSE r \in {ZoneRefs(doc)[q] : q \in 1..Len(ZoneRefs(doc))} :
               ZoneAt(doc, r).uid = uid
  IN ZoneAt(doc, ref)

\* C12: no step changes the document object passed to renumber_plots; once
\* parse_plots has returned, no step (of merge_adjacent_plots, Plot.merge or
\* update_json_with_merged_plots) changes the input Plot list or the document
\* whose zones the Plots reference; that document is the one passed to
\* update_json_with_merged_plots and equals its value before the call, and
\* every input Plot's zone is still the zone of that document.  The renames,
\* removals and coordinates are in the documents returned.
C12_OriginalNotMutated ==
  [][/\ json_data' = json_data
     /\ pc # "parse" => (parsed_doc' = parsed_doc /\ plots' = plots)
     /\ pc = "renumber" => data' = renumber_plots(json_data).data
     /\ PatchStep =>
          /\ parsed_doc' = data
          /\ data' = update_json_with_merged_plots(data, merged_plots, removed_names).data
     /\ pc \notin {"renumber", "parse"} =>
          \A k \in 1..Len(plots') :
            plots'[k].original_area_data
              = ZoneOf(parsed_doc', plots'[k].original_area_data.uid)]_vars

\* the run renamed zones and merged plots: both returned documents differ
\* from the documents passed in
C12_Witness ==
  /\ pc = "done"
  /\ renamed_count > 0
  /\ parsed_doc # json_data
  /\ Len(removed_names) > 0
  /\ data # parsed_doc

\* |a - b|
Distance(a, b) == IF a >= b THEN a - b ELSE b - a

\* area = (|xMax - xMin| + 1) * (|zMax - zMin| + 1) and price = area * 256
DerivedAsDesigned(p) ==
  /\ get_area_m2(p) = (Distance(p.x_max, p.x_min) + 1) * (Distance(p.z_max, p.z_min) + 1)
  /\ get_price(p) = (Distance(p.x_max, p.x_min) + 1) * (Distance(p.z_max, p.z_min) + 1) * 256
  /\ (p.x_min = p.x_max /\ p.z_min = p.z_max) => (get_area_m2(p) = 1 /\ get_price(p) = 256)

IsRect(p, x_min, z_min, x_max, z_max) ==
  get_bounds(p) = <<x_min, z_min, x_max, z_max>>

\* the input plots are x[0,9] z[0,9] and x[10,19] z[0,9], in this order
ScenarioMerge ==
  /\ Len(plots) = 2
  /\ IsRect(plots[1], 0, 0, 9, 9)
  /\ IsRect(plots[2], 10, 0, 19, 9)

\* C13: every Plot, parsed or grown by a merge, has the area
\* (|xMax - xMin| + 1) * (|zMax - zMin| + 1) and the price area * 256; a
\* single block has area 1 and price 256; x[0,9] z[0,9] and x[10,19] z[0,9]
\* are returned as the one Plot x[0,19] z[0,9] of area 200 and price 51200.
C13_AreaAndPrice ==
  /\ \A k \in 1..Len(plots) : DerivedAsDesigned(plots[k])
  /\ \A k \in 1..Len(result) : DerivedAsDesigned(result[k])
  /\ \A k \in 1..Len(merged_plots) : DerivedAsDesigned(merged_plots[k])
  /\ pc = "for_j" => DerivedAsDesigned(merged_plot)
  /\ (Returned /\ ScenarioMerge) =>
       /\ Len(merged_plots) = 1
       /\ IsRect(merged_plots[1], 0, 0, 19, 9)
       /\ get_area_m2(merged_plots[1]) = 200
       /\ get_price(merged_plots[1]) = 51200

\* the two ten-block squares were merged into one Plot and returned
C13_Witness ==
  /\ Returned
  /\ ScenarioMerge
  /\ Len(removed_names) = 1

\* the smallest and the largest element of a non-empty set of integers
Least(S) == CHOOSE x \in S : \A y \in S : x <= y
Greatest(S) == CHOOSE x \in S : \A y \in S : x >= y

\* the plots of ps have one owner, one dimension, low <= high and the same
\* extent on z, and their x extents tile a range of x without gap or overlap:
\* a chain of plots adjacent in a row, in whatever order ps lists them
IsRowChain(ps) ==
  /\ ps # <<>>
  /\ \A k \in 1..Len(ps) :
       /\ Normalized(ps[k])
       /\ ps[k].owner_uuid = ps[1].owner_uuid
       /\ ps[k].dimension = ps[1].dimension
       /\ ps[k].z_min = ps[1].z_min /\ ps[k].z_max = ps[1].z_max
  /\ \A x \in Least({ps[k].x_min : k \in 1..Len(ps)})..Greatest({ps[k].x_max : k \in 1..Len(ps)}) :
       Cardinality({k \in 1..Len(ps) : ps[k].x_min <= x /\ x <= ps[k].x_max}) = 1

\* the same along z
IsColumnChain(ps) ==
  /\ ps # <<>>
  /\ \A k \in 1..Len(ps) :
       /\ Normalized(ps[k])
       /\ ps[k].owner_uuid = ps[1].owner_uuid
       /\ ps[k].dimension = ps[1].dimension
       /\ ps[k].x_min = ps[1].x_min /\ ps[k].x_max = ps[1].x_max
  /\ \A z \in Least({ps[k].z_min : k \in 1..Len(ps)})..Greatest({ps[k].z_max : k \in 1..Len(ps)}) :
       Cardinality({k \in 1..Len(ps) : ps[k].z_min <= z /\ z <= ps[k].z_max}) = 1

\* C14: when merge_adjacent_plots has returned, no two distinct Plots of the
\* returned list satisfy can_merge in either order; and a chain of plots
\* adjacent in a row (or in a column), listed in any order, is returned as the
\* single Plot that spans the chain.
C14_FixedPoint ==
  Returned =>
    /\ \A a, b \in 1..Len(merged_plots) :
         a # b => ~can_merge(merged_plots[a], merged_plots[b])
    /\ IsRowChain(plots) =>
         /\ Len(merged_plots) = 1
         /\ merged_plots[1].x_min = Least({plots[k].x_min : k \in 1..Len(plots)})
         /\ merged_plots[1].x_max = Greatest({plots[k].x_max : k \in 1..Len(plots)})
    /\ IsColumnChain(plots) =>
         /\ Len(merged_plots) = 1
         /\ merged_plots[1].z_min = Least({plots[k].z_min : k \in 1..Len(plots)})
         /\ merged_plots[1].z_max = Greatest({plots[k].z_max : k \in 1..Len(plots)})

\* a chain of three plots listed as left, right, middle was returned as one
\* Plot after a second pass that merged
C14_Witness ==
  /\ Returned
  /\ Len(plots) = 3
  /\ IsRowChain(plots)
  /\ plots[1].x_max < plots[3].x_min
  /\ plots[3].x_max < plots[2].x_min
  /\ passes = 3
  /\ Len(merged_plots) = 1

\* the rectangles of a list of Plots
RectSet(ps) == {get_bounds(ps[k]) : k \in 1..Len(ps)}

\* three plots of which the first shares an edge with the second along x and
\* with the third along z (or the other way round): the first can be grouped
\* with either
TwoGroupings ==
  /\ Len(plots) = 3
  /\ AllNormalized
  /\ can_merge(plots[1], plots[2])
  /\ can_merge(plots[1], plots[3])
  /\ HorizontallyAdjacent(plots[1], plots[2]) # HorizontallyAdjacent(plots[1], plots[3])

\* C15: the stepwise loop returns what merge_adjacent_plots computes; for a
\* list of two plots the returned rectangles are the same in both orders
\* (when Plot.merge raises in neither); and for three plots of which the
\* first can be grouped with the second or with the third, the order
\* 1, 2, 3 and the order 1, 3, 2 give different rectangle sets.
C15_OrderDependence ==
  /\ Returned =>
       /\ merge_adjacent_plots(plots).ok
       /\ merged_plots = merge_adjacent_plots(plots).merged_plots
       /\ removed_names = merge_adjacent_plots(plots).removed_names
  /\ (pc = "raised" /\ merged_plots = <<>>) => ~merge_adjacent_plots(plots).ok
  /\ (Returned /\ Len(plots) = 2) =>
       LET swapped == merge_adjacent_plots(<<plots[2], plots[1]>>)
       IN swapped.ok => RectSet(swapped.merged_plots) = RectSet(merged_plots)
  /\ (Returned /\ TwoGroupings) =>
       LET swapped == merge_adjacent_plots(<<plots[1], plots[3], plots[2]>>)
       IN /\ swapped.ok
          /\ RectSet(swapped.merged_plots) # RectSet(merged_plots)
          /\ Len(swapped.merged_plots) = 2 /\ Len(merged_plots) = 2

\* three plots with two groupings were merged and returned
C15_Witness ==
  /\ Returned
  /\ TwoGroupings
  /\ RectSet(merge_adjacent_plots(<<plots[1], plots[3], plots[2]>>).merged_plots)
       # RectSet(merged_plots)

\* the run of main on the document the finished run produced
Rerun ==
  LET renumbered == renumber_plots(data)
      again == merge_adjacent_plots(parse_plots(renumbered.data))
  IN [renamed_count |-> renumbered.renamed_count,
      ok |-> again.ok,
      merged_count |-> Len(again.removed_names)]

\* C16 as stated: the run of main on the document a finished run produced
\* renames nothing and merges nothing: the numbers of the placeholder names
\* of the final document are 1..k and no two of its plots are mergeable.
C16_RerunStable ==
  pc = "done" =>
    /\ Rerun.renamed_count = 0
    /\ existing_numbers(data) = 1..Cardinality(existing_numbers(data))
    /\ Rerun.ok
    /\ Rerun.merged_count = 0

\* C17 as stated: when the zone names of the document passed to
\* renumber_plots are pairwise distinct within each dimension, so are the
\* zone names of the document it returns.
C17_RenumberKeepsNamesUnique ==
  (pc = "parse" /\ UniqueNames(json_data)) => UniqueNames(data)

====
